---- MODULE Spec2Model ----
(***************************************************************************)
(* dicom2json (src/dicomjson/dicom2json.py): a batch converter that, for   *)
(* each input DICOM file, writes the dataset as JSON and, when the pixel   *)
(* fields allow it, the pixel buffer as a PNG, and ends by writing one     *)
(* manifest (_dicom2json.json) listing what it produced.                   *)
(*                                                                         *)
(* The model follows convert_dicom_to_data and dicom2json statement by     *)
(* statement.  Python values are tagged records (None, int, bytes, str,    *)
(* list) so that Python's truth test can be modelled as the interpreter    *)
(* computes it.  A path is a parent directory and a file name, the name    *)
(* being the sequence of its dot-separated segments, so that pathlib's     *)
(* stem and with_suffix are computed rather than assumed.                  *)
(*                                                                         *)
(* Every run is decided by its inputs: the file list, the fields to        *)
(* remove, and the byte order of the machine.  Init draws them; the        *)
(* actions are the steps of the conversion of one file and the writing of  *)
(* the manifest.  Not modelled: main()'s argument parsing and directory    *)
(* expansion, debug logging, and the layout of the JSON text               *)
(* (my_json_dumps: indentation and key order).                             *)
(***************************************************************************)
EXTENDS Integers, Sequences, FiniteSets, TLC

\* ------------------------------------------------------------------ bounds
\* Longest input file list of a batch run.
MaxFiles == 2
\* Largest Rows / Columns value of the single-file pixel runs.
MaxDim == 2
\* Longest PixelData buffer of the single-file pixel runs.
MaxBufLen == 4
\* Longest --remove_dicom_fields list of the single-file redaction runs.
MaxRdf == 2

\* ---------------------------------------------------------- Python values
None == [t |-> "None"]
PyInt(n) == [t |-> "int", v |-> n]
PyBytes(b) == [t |-> "bytes", v |-> b]
PyStr(s) == [t |-> "str", v |-> s]
PyList(l) == [t |-> "list", v |-> l]

\* Python's truth value of an object, as `if x` and `x and y` test it.
Truthy(x) ==
    CASE x.t = "None"  -> FALSE
      [] x.t = "int"   -> x.v # 0
      [] x.t = "bytes" -> x.v # <<>>
      [] x.t = "str"   -> x.v # ""
      [] x.t = "list"  -> x.v # <<>>

\* ------------------------------------------------------------------ paths
Path(parent, name) == [parent |-> parent, name |-> name]

\* PurePath.stem: the name without its last suffix.
PathStem(p) ==
    IF Len(p.name) > 1 THEN SubSeq(p.name, 1, Len(p.name) - 1) ELSE p.name

\* PurePath.with_suffix: the last suffix of the name, if it has one, is
\* replaced by the new suffix; a name without a suffix gets it appended.
WithSuffix(p, suffix) == [p EXCEPT !.name = PathStem(p) \o <<suffix>>]

\* constants.py (JsonConstants.SUFFIX, PngConstants.SUFFIX); the leading dot
\* is the segment separator of a name.
JSON_SUFFIX == "json"
PNG_SUFFIX == "png"

DEFAULT_OUTPUT_DIR == "output"

\* output_filepath = DEFAULT_OUTPUT_DIR / input_file.stem
OutputFilepath(input_file) == Path(DEFAULT_OUTPUT_DIR, PathStem(input_file))

OutputDatasetFilepath(input_file) ==
    WithSuffix(OutputFilepath(input_file), JSON_SUFFIX)

OutputImageFilepath(input_file) ==
    WithSuffix(OutputFilepath(input_file), PNG_SUFFIX)

OutputTemplateFilepath ==
    WithSuffix(Path(DEFAULT_OUTPUT_DIR, <<"_dicom2json">>), JSON_SUFFIX)

\* --------------------------------------------------------------- datasets
\* A dataset maps the keywords of the elements it holds to their values; an
\* element that is absent has no key.

\* Dataset.get(keyword): the element's value, None when it is absent.
Get(ds, keyword) == IF keyword \in DOMAIN ds THEN ds[keyword] ELSE None

\* Dataset.pop(keyword)
Pop(ds, keyword) == [k \in DOMAIN ds \ {keyword} |-> ds[k]]

\* logger.warning / logger.error records; `file` is the position in the input
\* list of the file being converted when the record is emitted.
LogRecord(level, msg, arg, file) ==
    [level |-> level, msg |-> msg, arg |-> arg, file |-> file]

\* The loop over remove_dicom_fields: a named element is popped when get()
\* returns a true value, otherwise the field is reported as unrecognized.
RECURSIVE RemoveFields(_, _, _)
RemoveFields(ds, names, file) ==
    IF names = <<>>
    THEN [ds |-> ds, log |-> <<>>]
    ELSE LET name == Head(names)
             hit  == Truthy(Get(ds, name))
             rest == RemoveFields(IF hit THEN Pop(ds, name) ELSE ds,
                                  Tail(names), file)
         IN  [ds  |-> rest.ds,
              log |-> (IF hit THEN <<>>
                       ELSE <<LogRecord("warning", "Unrecognized DICOM field",
                                        name, file)>>) \o rest.log]

\* `if remove_dicom_fields:` guards the loop.
RemoveDicomFields(ds, rdf, file) ==
    IF Truthy(rdf) THEN RemoveFields(ds, rdf.v, file)
    ELSE [ds |-> ds, log |-> <<>>]

\* ----------------------------------------------------------------- pixels
\* `rows and columns and pixel_data and bits_stored`
HasPixelFields(r, c, p, b) ==
    Truthy(r) /\ Truthy(c) /\ Truthy(p) /\ Truthy(b)

\* rows * columns * (bits_stored / 8) is a float; it is kept here in eighths
\* (rows * columns * bits_stored) and int() divides, truncating.
ExpectedLength8(r, c, b) == r.v * c.v * b.v

IntOfEighths(x) == x \div 8

\* img_dtype: np.uint8 for 8, np.uint16 for 16, no dtype otherwise.
ImgDtype(b) ==
    IF b.t = "int" /\ b.v = 8 THEN "uint8"
    ELSE IF b.t = "int" /\ b.v = 16 THEN "uint16"
    ELSE "unrecognized"

\* The k-th (from 0) item of a buffer read with a dtype in the native byte
\* order of the machine.
Sample(dtype, buf, k, order) ==
    IF dtype = "uint8" THEN buf[k + 1]
    ELSE IF order = "little" THEN buf[2 * k + 1] + 256 * buf[2 * k + 2]
    ELSE 256 * buf[2 * k + 1] + buf[2 * k + 2]

\* np.ndarray((rows, columns), dtype, buffer): C (row-major) order.
NdArray(r, c, dtype, buf, order) ==
    [y \in 1..r |-> [x \in 1..c |-> Sample(dtype, buf, (y - 1) * c + (x - 1), order)]]

\* ------------------------------------------------------------ file system
NoFile == [kind |-> "none"]

\* The text written to <stem>.json: {"meta": ..., "data": ...}
JsonFile(meta, data, by) ==
    [kind |-> "json", body |-> [meta |-> meta, data |-> data], by |-> by]

\* cv2.imwrite of a 2-D uint8 / uint16 array: a grayscale PNG of that depth.
PngFile(dtype, array, by) ==
    [kind |-> "png", depth |-> IF dtype = "uint8" THEN 8 ELSE 16,
     pixels |-> array, by |-> by]

\* DicomConvertedData(image, output, template)
DicomConvertedData(image, output, template) ==
    [image |-> image, output |-> output, template |-> template]

\* A slip the model is checked against: only the items that have an image
\* are listed.
TemplateFileOfImages(data) ==
    LET kept == SelectSeq(data, LAMBDA d : d.image # None)
    IN  [kind |-> "json",
         body |-> [k \in 1..Len(kept) |->
                     [template |-> kept[k].template, image |-> kept[k].image,
                      output |-> kept[k].output]],
         by |-> 0]

\* The manifest: one {template, image, output} object per converted_data item.
TemplateFile(data) ==
    [kind |-> "json",
     body |-> [k \in 1..Len(data) |->
                 [template |-> data[k].template, image |-> data[k].image,
                  output |-> data[k].output]],
     by |-> 0]

\* ----------------------------------------------------------------- inputs
Seqs(S, n) == UNION {[1..k -> S] : k \in 0..n}

Ramp(n) == [k \in 1..n |-> 10 * k]

\* file_meta of every dataset read.
FileMeta == [TransferSyntaxUID |-> PyStr("1.2.840.10008.1.2.1")]

\* A dataset from the value of each element, None for an absent element.
MkDataset(r, c, b, p, n) ==
    LET all == [Rows |-> r, Columns |-> c, BitsStored |-> b, PixelData |-> p,
                PatientName |-> n]
    IN  [k \in {k \in DOMAIN all : all[k] # None} |-> all[k]]

\* An input file: where it is, whether dcmread can read it, what it holds.
InputFile(path, valid, ds) == [path |-> path, valid |-> valid, dataset |-> ds]

EmptyDataset == MkDataset(None, None, None, None, None)

\* Batch runs: a few files, among them two of the same name in different
\* directories and names that hold more than one dot.
BatchPaths ==
    { Path("d1", <<"a", "dcm">>), Path("d2", <<"a", "dcm">>),
      Path("d3", <<"a", "v1", "dcm">>), Path("d3", <<"b", "dcm">>) }

BatchDatasets ==
    { MkDataset(PyInt(2), PyInt(2), PyInt(8), PyBytes(Ramp(4)), PyStr("DOE")),
      MkDataset(PyInt(1), PyInt(2), PyInt(16), PyBytes(Ramp(4)), PyStr("DOE")),
      MkDataset(PyInt(2), PyInt(2), PyInt(8), PyBytes(Ramp(3)), PyStr("DOE")),
      MkDataset(None, PyInt(2), PyInt(8), PyBytes(Ramp(4)), PyStr("DOE")),
      MkDataset(PyInt(2), PyInt(2), PyInt(12), PyBytes(Ramp(4)), PyStr("DOE")) }

BatchFiles ==
    {InputFile(p, TRUE, ds) : p \in BatchPaths, ds \in BatchDatasets}
    \cup {InputFile(p, FALSE, EmptyDataset) : p \in BatchPaths}

\* One path names one file: it cannot hold two contents in one run.
OnePathOneContent(files) ==
    \A j, k \in 1..Len(files) : files[j].path = files[k].path => files[j] = files[k]

BatchRuns ==
    { [files |-> fs, rdf |-> rdf, order |-> "little"] :
        fs \in {s \in Seqs(BatchFiles, MaxFiles) : OnePathOneContent(s)},
        rdf \in {None, PyList(<<"PixelData">>)} }

\* Single-file pixel runs: every combination of Rows, Columns, BitsStored and
\* PixelData, absent or present, on both byte orders.
IntChoices(S) == {None} \cup {PyInt(n) : n \in S}

Buffers ==
    {PyBytes(b) : b \in Seqs({0, 255}, MaxBufLen)}
    \cup {PyBytes(Ramp(n)) : n \in 1..MaxBufLen}

PixelRuns ==
    { [files |-> <<InputFile(Path("d1", <<"a", "dcm">>), TRUE,
                             MkDataset(r, c, b, p, None))>>,
       rdf |-> None, order |-> o] :
        r \in IntChoices(0..MaxDim), c \in IntChoices(0..MaxDim),
        b \in IntChoices({0, 8, 12, 16}), p \in {None} \cup Buffers,
        o \in {"little", "big"} }

\* Single-file redaction runs: every element absent, present with a false
\* value, or present with a true one; every list of field names.
RdfNames == {"Rows", "Columns", "BitsStored", "PixelData", "PatientName"}

RedactionRuns ==
    { [files |-> <<InputFile(Path("d1", <<"a", "dcm">>), TRUE,
                             MkDataset(r, c, b, p, n))>>,
       rdf |-> PyList(l), order |-> "little"] :
        r \in IntChoices({0, 2}), c \in IntChoices({0, 2}),
        b \in IntChoices({0, 8}),
        p \in {None, PyBytes(<<>>), PyBytes(Ramp(4))},
        n \in {None, PyStr(""), PyStr("DOE")},
        l \in Seqs(RdfNames, MaxRdf) \ {<<>>} }

Runs == BatchRuns \cup PixelRuns \cup RedactionRuns

\* Every path the runs can write to.
OutputPaths ==
    {OutputDatasetFilepath(p) : p \in BatchPaths}
    \cup {OutputImageFilepath(p) : p \in BatchPaths}
    \cup {OutputTemplateFilepath}

\* ------------------------------------------------------------------ state
VARIABLES
    input_files,          \* dicom2json's input_files: the files to convert
    remove_dicom_fields,  \* None or the list of field names to remove
    byteorder,            \* the machine's native byte order
    pc,                   \* where the run is
    i,                    \* position of the file being converted (0: none yet)
    dicom_dataset,        \* convert_dicom_to_data's dataset
    rows, columns, pixel_data, bits_stored,
    pixel_data_length, pixel_data_expected_length,
    converted_data,       \* the DicomConvertedData list
    fs,                   \* the output directory: path -> file written
    fs0,                  \* fs as it was when the current file was begun
    log,                  \* the logger's warning and error records
    raised                \* the exception that ended the run, if any

locals == <<dicom_dataset, rows, columns, pixel_data, bits_stored,
            pixel_data_length, pixel_data_expected_length>>

vars == <<input_files, remove_dicom_fields, byteorder, pc, i, locals,
          converted_data, fs, fs0, log, raised>>

inputs == <<input_files, remove_dicom_fields, byteorder>>

Init ==
    /\ \E run \in Runs :
         /\ input_files = run.files
         /\ remove_dicom_fields = run.rdf
         /\ byteorder = run.order
    /\ pc = "loop"
    /\ i = 0
    /\ dicom_dataset = EmptyDataset
    /\ rows = None /\ columns = None /\ pixel_data = None /\ bits_stored = None
    /\ pixel_data_length = None
    /\ pixel_data_expected_length = None
    /\ converted_data = <<>>
    /\ fs = [p \in OutputPaths |-> NoFile]
    /\ fs0 = [p \in OutputPaths |-> NoFile]
    /\ log = <<>>
    /\ raised = "none"

input_file == input_files[i].path

\* ---------------------------------------------------------------- actions
\* A slip the model is checked against: the error of one file is caught in
\* the loop and the batch goes on.
DcmreadRaisesCaught ==
    /\ pc = "loop"
    /\ i < Len(input_files)
    /\ ~input_files[i + 1].valid
    /\ i' = i + 1
    /\ raised' = "InvalidDicomError"
    /\ converted_data' = Append(converted_data,
         DicomConvertedData(None, input_files[i + 1].path.name, None))
    /\ pc' = "loop"
    /\ fs0' = fs
    /\ UNCHANGED <<inputs, locals, fs, log>>

\* dcmread raises (InvalidDicomError): re-raised by convert_dicom_to_data and
\* by dicom2json, the run ends.
DcmreadRaises ==
    /\ pc = "loop"
    /\ i < Len(input_files)
    /\ ~input_files[i + 1].valid
    /\ i' = i + 1
    /\ raised' = "InvalidDicomError"
    /\ pc' = "aborted"
    /\ fs0' = fs
    /\ UNCHANGED <<inputs, locals, converted_data, fs, log>>

\* dcmread and the extraction of Rows, Columns, PixelData and BitsStored.
ExtractFields ==
    /\ pc = "loop"
    /\ i < Len(input_files)
    /\ input_files[i + 1].valid
    /\ LET ds == input_files[i + 1].dataset
           r  == Get(ds, "Rows")
           c  == Get(ds, "Columns")
           p  == Get(ds, "PixelData")
           b  == Get(ds, "BitsStored")
           filled == Truthy(p) /\ Truthy(r) /\ Truthy(c) /\ Truthy(b)
       IN  /\ dicom_dataset' = ds
           /\ rows' = r /\ columns' = c /\ pixel_data' = p /\ bits_stored' = b
           /\ pixel_data_length' =
                IF filled THEN PyInt(Len(p.v)) ELSE None
           /\ pixel_data_expected_length' =
                IF filled THEN PyInt(ExpectedLength8(r, c, b)) ELSE None
    /\ i' = i + 1
    /\ pc' = "extracted"
    /\ fs0' = fs
    /\ UNCHANGED <<inputs, converted_data, fs, log, raised>>

\* Remove DICOM fields specified by the user.
RemoveFieldsStep ==
    /\ pc = "extracted"
    /\ LET res == RemoveDicomFields(dicom_dataset, remove_dicom_fields, i)
       IN  /\ dicom_dataset' = res.ds
           /\ log' = log \o res.log
    /\ pc' = "redacted"
    /\ UNCHANGED <<inputs, i, rows, columns, pixel_data, bits_stored,
                   pixel_data_length, pixel_data_expected_length,
                   converted_data, fs, fs0, raised>>

\* Write dataset JSON file.
WriteDatasetJson ==
    /\ pc = "redacted"
    /\ fs' = [fs EXCEPT ![OutputDatasetFilepath(input_file)] =
                JsonFile(FileMeta, dicom_dataset, i)]
    /\ pc' = "written"
    /\ UNCHANGED <<inputs, i, locals, converted_data, fs0, log, raised>>

\* A slip the model is checked against: the four fields are looked up again in
\* the dataset, after the user's fields were removed from it.
PixelFieldsFilledAfterRemoval ==
    HasPixelFields(Get(dicom_dataset, "Rows"), Get(dicom_dataset, "Columns"),
                   Get(dicom_dataset, "PixelData"), Get(dicom_dataset, "BitsStored"))

\* `if rows and columns and pixel_data and bits_stored:` on the values that
\* were extracted before the removal of fields.
PixelFieldsFilled == HasPixelFields(rows, columns, pixel_data, bits_stored)

\* One of the four fields is not filled: a warning, a result without image.
MissingFields ==
    /\ pc = "written"
    /\ ~PixelFieldsFilled
    /\ log' = Append(log, LogRecord("warning", "has no Rows or Columns or BitsStored or PixelData",
                                    input_file, i))
    /\ converted_data' = Append(converted_data,
         DicomConvertedData(None, input_file.name,
                            OutputDatasetFilepath(input_file)))
    /\ pc' = "loop"
    /\ UNCHANGED <<inputs, i, locals, fs, fs0, raised>>

\* BitsStored is neither 8 nor 16: ValueError, which nothing on the way up
\* handles; the run ends.
RaiseBitsStored ==
    /\ pc = "written"
    /\ PixelFieldsFilled
    /\ ImgDtype(bits_stored) = "unrecognized"
    /\ raised' = "ValueError"
    /\ pc' = "aborted"
    /\ UNCHANGED <<inputs, i, locals, converted_data, fs, fs0, log>>

\* A slip the model is checked against: the size mismatch raises, like the
\* unrecognized BitsStored value just above it.
BufferSizeMismatchRaises ==
    /\ pc = "written"
    /\ PixelFieldsFilled
    /\ ImgDtype(bits_stored) # "unrecognized"
    /\ pixel_data_length.v # IntOfEighths(pixel_data_expected_length.v)
    /\ log' = Append(log, LogRecord("error", "buffer size is not consistent",
                                    input_file, i))
    /\ raised' = "ValueError"
    /\ pc' = "aborted"
    /\ UNCHANGED <<inputs, i, locals, converted_data, fs, fs0>>

\* The buffer is not rows * columns * bits_stored / 8 bytes long: an error, a
\* result without image, return.
BufferSizeMismatch ==
    /\ pc = "written"
    /\ PixelFieldsFilled
    /\ ImgDtype(bits_stored) # "unrecognized"
    /\ pixel_data_length.v # IntOfEighths(pixel_data_expected_length.v)
    /\ log' = Append(log, LogRecord("error", "buffer size is not consistent",
                                    input_file, i))
    /\ converted_data' = Append(converted_data,
         DicomConvertedData(None, input_file.name,
                            OutputDatasetFilepath(input_file)))
    /\ pc' = "loop"
    /\ UNCHANGED <<inputs, i, locals, fs, fs0, raised>>

\* Write image PNG file, add full data in the main list.
WriteImage ==
    /\ pc = "written"
    /\ PixelFieldsFilled
    /\ ImgDtype(bits_stored) # "unrecognized"
    /\ pixel_data_length.v = IntOfEighths(pixel_data_expected_length.v)
    /\ LET dtype == ImgDtype(bits_stored)
           dicom_image == NdArray(rows.v, columns.v, dtype, pixel_data.v, byteorder)
       IN  fs' = [fs EXCEPT ![OutputImageFilepath(input_file)] =
                    PngFile(dtype, dicom_image, i)]
    /\ converted_data' = Append(converted_data,
         DicomConvertedData(OutputImageFilepath(input_file), input_file.name,
                            OutputDatasetFilepath(input_file)))
    /\ pc' = "loop"
    /\ UNCHANGED <<inputs, i, locals, fs0, log, raised>>

\* After the loop: write template file.
WriteTemplate ==
    /\ pc = "loop"
    /\ i = Len(input_files)
    /\ fs' = [fs EXCEPT ![OutputTemplateFilepath] = TemplateFile(converted_data)]
    /\ pc' = "done"
    /\ UNCHANGED <<inputs, i, locals, converted_data, fs0, log, raised>>

Next ==
    \/ DcmreadRaises
    \/ ExtractFields
    \/ RemoveFieldsStep
    \/ WriteDatasetJson
    \/ MissingFields
    \/ RaiseBitsStored
    \/ BufferSizeMismatch
    \/ WriteImage
    \/ WriteTemplate

Spec == Init /\ [][Next]_vars

\* The runs in which no element of a dataset has the value 0 or is empty.
InitFilled ==
    /\ Init
    /\ \A j \in 1..Len(input_files) :
         \A k \in DOMAIN input_files[j].dataset :
             Truthy(input_files[j].dataset[k])

SpecFilled == InitFilled /\ [][Next]_vars

\* ------------------------------------------------------- reading a state
PixelKeywords == {"Rows", "Columns", "PixelData", "BitsStored"}

\* The dataset of file j as it is on disk, before any removal.
Orig(j) == input_files[j].dataset

AllPresent(ds) == PixelKeywords \subseteq DOMAIN ds

\* len(PixelData) against Rows * Columns * (BitsStored / 8), exactly.
LengthMatches(ds) ==
    8 * Len(ds["PixelData"].v) = ds["Rows"].v * ds["Columns"].v * ds["BitsStored"].v

\* File j was read and its conversion has ended, by a return or by a raise.
Ended(j) ==
    /\ j >= 1 /\ j = i
    /\ input_files[j].valid
    /\ pc \in {"loop", "done", "aborted"}

FileAt(p) == IF p \in DOMAIN fs THEN fs[p] ELSE NoFile

Logged(level, msg, j) ==
    \E k \in 1..Len(log) :
        log[k].level = level /\ log[k].msg = msg /\ log[k].file = j

LoggedLevel(level, j) ==
    \E k \in 1..Len(log) : log[k].level = level /\ log[k].file = j

SizeError(j) == Logged("error", "buffer size is not consistent", j)

MissingWarning(j) ==
    Logged("warning", "has no Rows or Columns or BitsStored or PixelData", j)

\* The dataset JSON of file j is in place, written by file j.
JsonWrittenBy(j) ==
    LET f == fs[OutputDatasetFilepath(input_files[j].path)]
    IN  f.kind = "json" /\ f.by = j

ImageWrittenBy(j) ==
    \E p \in DOMAIN fs : fs[p].kind = "png" /\ fs[p].by = j

\* File j returned normally with exactly one result, which has no image.
OneResultWithoutImage(j) ==
    /\ pc \in {"loop", "done"}
    /\ raised = "none"
    /\ Len(converted_data) = j
    /\ converted_data[j].image = None
    /\ converted_data[j].output = input_files[j].path.name

\* <outputDir>/<stem>.<suffix>
StemPath(input, suffix) ==
    Path(DEFAULT_OUTPUT_DIR, PathStem(input) \o <<suffix>>)

RequestedFields ==
    IF remove_dicom_fields.t = "list"
    THEN {remove_dicom_fields.v[k] : k \in 1..Len(remove_dicom_fields.v)}
    ELSE {}

\* ----------------------------------------------------------------- claims

\* C1: when the run ends without a fatal error, the manifest holds exactly one
\* entry per input file, in input order: entry j has the name of file j as
\* output and the path of its dataset JSON, which exists, as template.
ManifestListsInputsInOrder ==
    pc = "done" =>
        LET m == fs[OutputTemplateFilepath]
        IN  /\ m.kind = "json"
            /\ Len(m.body) = Len(input_files)
            /\ \A j \in 1..Len(input_files) :
                 /\ j <= Len(m.body)
                 /\ m.body[j].output = input_files[j].path.name
                 /\ m.body[j].template = OutputDatasetFilepath(input_files[j].path)
                 /\ fs[m.body[j].template].kind = "json"

\* C1 witness: a finished run of two files of different names, the first
\* without image, the second with one.
ManifestOfMixedOutcomes ==
    /\ pc = "done"
    /\ Len(input_files) = 2
    /\ input_files[1].path.name # input_files[2].path.name
    /\ fs[OutputTemplateFilepath].body[1].image = None
    /\ fs[OutputTemplateFilepath].body[2].image # None

UnsupportedBitDepthAborts ==
    \A j \in 1..Len(input_files) :
        (Ended(j) /\ AllPresent(Orig(j)) /\ Orig(j)["BitsStored"].v \notin {8, 16}) =>
            /\ pc = "aborted"
            /\ raised = "ValueError"
            /\ Len(converted_data) = j - 1
            /\ ~ImageWrittenBy(j)

\* C4 as stated: once the dataset JSON of a file is written, no requested
\* field that the dataset held is a key of it, and every other field the
\* dataset held still is.
RedactedFieldsLeaveJson ==
    (pc = "written" /\ i >= 1) =>
        LET data == fs[OutputDatasetFilepath(input_file)].body.data
        IN  /\ \A F \in RequestedFields \cap DOMAIN Orig(i) : F \notin DOMAIN data
            /\ \A G \in DOMAIN Orig(i) \ RequestedFields : G \in DOMAIN data

\* C5 as stated: once a fatal error is raised the run has stopped, the
\* manifest is not written, nothing is written for a later file, and every
\* output that existed when the failing file was begun is as it was.
FatalErrorKeepsEarlierOutputs ==
    raised # "none" =>
        /\ pc = "aborted"
        /\ ~ENABLED Next
        /\ fs[OutputTemplateFilepath] = NoFile
        /\ \A p \in DOMAIN fs : fs[p] # NoFile => fs[p].by <= i
        /\ \A p \in DOMAIN fs : fs0[p] # NoFile => fs[p] = fs0[p]

\* C5 amended: as stated, except for the dataset JSON path of the failing
\* file itself: its JSON is written before the BitsStored check, over whatever
\* an earlier file had written at that path.  A file that cannot be read
\* writes nothing.
FatalErrorKeepsOtherOutputs ==
    raised # "none" =>
        /\ pc = "aborted"
        /\ ~ENABLED Next
        /\ fs[OutputTemplateFilepath] = NoFile
        /\ \A p \in DOMAIN fs : fs[p] # NoFile => fs[p].by <= i
        /\ \A p \in DOMAIN fs :
             p # OutputDatasetFilepath(input_file) => fs[p] = fs0[p]
        /\ raised = "InvalidDicomError" => fs = fs0
        /\ raised = "ValueError" => JsonWrittenBy(i)

\* C5 witness: the second file of a run raised, the first one's JSON and image
\* are on disk as the first file wrote them.
AbortAfterConvertedFile ==
    /\ pc = "aborted" /\ i = 2
    /\ JsonWrittenBy(1) /\ ImageWrittenBy(1)
    /\ fs[OutputTemplateFilepath] = NoFile

\* C6 as stated: for every file that loads, the dataset JSON is at
\* <outputDir>/<stem>.json before the pixel step is attempted (nothing about
\* the file's pixels is logged, no image of it written, no result appended
\* yet), and it is there in every outcome; every result has a template that
\* names a written file.
MetadataWrittenAtStemJsonFirst ==
    /\ \A k \in 1..Len(converted_data) :
         /\ converted_data[k].template # None
         /\ FileAt(converted_data[k].template).kind = "json"
    /\ (i >= 1 /\ input_files[i].valid /\ pc \in {"written", "loop", "done", "aborted"}) =>
         LET f == FileAt(StemPath(input_file, JSON_SUFFIX))
         IN  f.kind = "json" /\ f.by = i
    /\ pc = "written" =>
         /\ ~SizeError(i) /\ ~MissingWarning(i) /\ ~ImageWrittenBy(i)
         /\ Len(converted_data) = i - 1
         /\ raised = "none"

\* C7 as stated: the missing-field path (warning, JSON, no image, one result
\* without image, the run goes on) is taken exactly when one of the four
\* fields is absent from the dataset, and a result has an image exactly when
\* the four are present and the buffer is valid.
ImageExactlyWhenFieldsPresent ==
    \A j \in 1..Len(input_files) :
        Ended(j) =>
            /\ MissingWarning(j) <=> ~AllPresent(Orig(j))
            /\ ~AllPresent(Orig(j)) =>
                 /\ OneResultWithoutImage(j)
                 /\ JsonWrittenBy(j)
                 /\ ~ImageWrittenBy(j)
                 /\ ~LoggedLevel("error", j)
            /\ pc # "aborted" =>
                 /\ Len(converted_data) = j
                 /\ converted_data[j].image # None <=>
                      /\ AllPresent(Orig(j))
                      /\ Orig(j)["BitsStored"].v \in {8, 16}
                      /\ LengthMatches(Orig(j))

\* The image of file j at path p is the rows x columns grid of the buffer's
\* samples in row-major order, each within the range of its depth.
GridAt(j, p) ==
    LET ds   == Orig(j)
        R    == ds["Rows"].v
        C    == ds["Columns"].v
        bits == ds["BitsStored"].v
        buf  == ds["PixelData"].v
        f    == FileAt(p)
    IN  /\ f.kind = "png" /\ f.by = j
        /\ f.depth = bits
        /\ Len(f.pixels) = R
        /\ \A y \in 1..R :
             /\ Len(f.pixels[y]) = C
             /\ \A x \in 1..C :
                  LET k == (y - 1) * C + (x - 1)
                      s == f.pixels[y][x]
                  IN  /\ s >= 0 /\ s <= 2 ^ bits - 1
                      /\ bits = 8 => s = buf[k + 1]
                      /\ bits = 16 =>
                           s \in {buf[2 * k + 1] + 256 * buf[2 * k + 2],
                                  256 * buf[2 * k + 1] + buf[2 * k + 2]}

\* Rows, Columns >= 1, BitsStored 8 or 16, a buffer of exactly the length.
ValidPixels(ds) ==
    /\ AllPresent(ds)
    /\ ds["Rows"].v >= 1 /\ ds["Columns"].v >= 1
    /\ ds["BitsStored"].v \in {8, 16}
    /\ LengthMatches(ds)

\* C8 as stated: for Rows, Columns >= 1, BitsStored 8 or 16 and a buffer of
\* exactly Rows * Columns * (BitsStored / 8) bytes, the file gets one result
\* whose image is <outputDir>/<stem>.png, and that file is the row-major grid
\* of the buffer's samples.
ExtractionYieldsGridAtStemPng ==
    \A j \in 1..Len(input_files) :
        (Ended(j) /\ ValidPixels(Orig(j))) =>
            /\ pc # "aborted"
            /\ Len(converted_data) = j
            /\ converted_data[j].image = StemPath(input_files[j].path, PNG_SUFFIX)
            /\ GridAt(j, StemPath(input_files[j].path, PNG_SUFFIX))

\* The part of C8 about the grid, at the path the result names.
ExtractionYieldsGrid ==
    \A j \in 1..Len(input_files) :
        (Ended(j) /\ ValidPixels(Orig(j))) =>
            /\ pc # "aborted"
            /\ Len(converted_data) = j
            /\ converted_data[j].image # None
            /\ GridAt(j, converted_data[j].image)

\* The part of C6 about the order of the steps, at the path the code uses.
MetadataWrittenFirst ==
    /\ \A k \in 1..Len(converted_data) :
         /\ converted_data[k].template # None
         /\ FileAt(converted_data[k].template).kind = "json"
    /\ (i >= 1 /\ input_files[i].valid /\ pc \in {"written", "loop", "done", "aborted"}) =>
         JsonWrittenBy(i)
    /\ pc = "written" =>
         /\ ~SizeError(i) /\ ~MissingWarning(i) /\ ~ImageWrittenBy(i)
         /\ Len(converted_data) = i - 1
         /\ raised = "none"

\* C9: how a file ends (image written, size mismatch, unsupported bit depth,
\* missing field), the image written and the 'image' of its result are
\* decided by the dataset as it was read, whatever fields are requested for
\* removal; the request changes only which keys the dataset JSON holds.
ImageOutcomeIgnoresRedaction ==
    \A j \in 1..Len(input_files) :
        Ended(j) =>
            LET ds == Orig(j)
                r  == Get(ds, "Rows")
                c  == Get(ds, "Columns")
                p  == Get(ds, "PixelData")
                b  == Get(ds, "BitsStored")
                data == fs[OutputDatasetFilepath(input_files[j].path)].body.data
            IN  /\ JsonWrittenBy(j)
                /\ DOMAIN data \subseteq DOMAIN ds
                /\ \A k \in DOMAIN data : data[k] = ds[k]
                /\ DOMAIN ds \ DOMAIN data \subseteq RequestedFields
                /\ IF ~HasPixelFields(r, c, p, b)
                   THEN /\ OneResultWithoutImage(j) /\ MissingWarning(j)
                        /\ ~ImageWrittenBy(j)
                   ELSE IF ImgDtype(b) = "unrecognized"
                   THEN /\ pc = "aborted" /\ raised = "ValueError"
                        /\ Len(converted_data) = j - 1
                        /\ ~ImageWrittenBy(j)
                   ELSE IF ~LengthMatches(ds)
                   THEN /\ OneResultWithoutImage(j) /\ SizeError(j)
                        /\ ~ImageWrittenBy(j)
                   ELSE /\ pc # "aborted"
                        /\ Len(converted_data) = j
                        /\ converted_data[j].image =
                             OutputImageFilepath(input_files[j].path)
                        /\ fs[converted_data[j].image] =
                             PngFile(ImgDtype(b),
                                     NdArray(r.v, c.v, ImgDtype(b), p.v, byteorder), j)

\* C9 witness: PixelData was requested for removal and is not in the dataset
\* JSON of the file, whose image has been written all the same.
ImageWrittenDespiteRemovedPixelData ==
    /\ Ended(1)
    /\ "PixelData" \in RequestedFields
    /\ "PixelData" \in DOMAIN Orig(1)
    /\ JsonWrittenBy(1)
    /\ "PixelData" \notin DOMAIN fs[OutputDatasetFilepath(input_files[1].path)].body.data
    /\ ImageWrittenBy(1)
    /\ converted_data[1].image # None

\* C10 as stated: the manifest has one entry per input file, each template is
\* <outputDir>/<stem>.json, two files of different stems have different
\* templates and images, and two files of one stem share the template, the
\* file there being the later one's.
OutputPathsFollowStems ==
    pc = "done" =>
        LET m == fs[OutputTemplateFilepath].body
        IN  /\ Len(m) = Len(input_files)
            /\ \A j \in 1..Len(m) :
                 m[j].template = StemPath(input_files[j].path, JSON_SUFFIX)
            /\ \A j, k \in 1..Len(m) :
                 j < k =>
                   IF PathStem(input_files[j].path) # PathStem(input_files[k].path)
                   THEN /\ m[j].template # m[k].template
                        /\ (m[j].image # None /\ m[k].image # None)
                             => m[j].image # m[k].image
                   ELSE /\ m[j].template = m[k].template
                        /\ FileAt(m[j].template).kind = "json"
                        /\ FileAt(m[j].template).by >= k

====
